---- MODULE Spec2Model ----
(***************************************************************************)
(* lcp-decrypt: model of pkg/lcp (lcp.Decrypt and its helpers) and of the  *)
(* command-line front end cmd/lcp-decrypt.                                 *)
(*                                                                         *)
(* Go strings and []byte are sequences of byte values 0..255.  A Go        *)
(* (value, error) result is a record [kind, val, err] with kind "ok",      *)
(* "err" or "panic" (a run-time panic: slice bounds, index out of range,   *)
(* a panic raised by the standard library).                                *)
(***************************************************************************)
EXTENDS Integers, Sequences, FiniteSets, TLC

Ok(v) == [kind |-> "ok", val |-> v, err |-> <<>>]
Err(e) == [kind |-> "err", val |-> <<>>, err |-> e]
Panic(e) == [kind |-> "panic", val |-> <<>>, err |-> e]

\* A Go statement x := e; ...: e is evaluated once, and what follows reads x.
With(e, Rest(_)) == CHOOSE r \in {Rest(x) : x \in {e}} : TRUE

\* fmt.Errorf("msg: %w", err): the message is put in front of the chain.
Wrap(msg, r) == [kind |-> r.kind, val |-> <<>>, err |-> <<msg>> \o r.err]

(***************************************************************************)
(* Byte helpers.                                                           *)
(***************************************************************************)
RECURSIVE XorBits(_, _, _)
XorBits(a, b, n) ==
    IF n = 0 THEN 0
    ELSE (((a % 2) + (b % 2)) % 2) + 2 * XorBits(a \div 2, b \div 2, n - 1)

\* a function with domain 1..n as an explicit sequence of its values
AsSeq(f) == f \o <<>>

\* the exclusive or of two 4-bit values a - 1 and b - 1, tabulated
XorTable == AsSeq([a \in 1..16 |-> AsSeq([b \in 1..16 |-> XorBits(a - 1, b - 1, 4)])])

\* the exclusive or of two bytes, nibble by nibble
Xor8(a, b) ==
    16 * XorTable[(a \div 16) + 1][(b \div 16) + 1] + XorTable[(a % 16) + 1][(b % 16) + 1]

\* a variant of the directory test that takes no name for a directory
HasSuffixSlash_never(name) == FALSE

\* strings.HasSuffix(name, "/")
HasSuffixSlash(name) == Len(name) > 0 /\ name[Len(name)] = 47

(***************************************************************************)
(* encoding/hex.DecodeString                                               *)
(***************************************************************************)
IsHexDigit(c) == (c >= 48 /\ c <= 57) \/ (c >= 97 /\ c <= 102) \/ (c >= 65 /\ c <= 70)

HexVal(c) ==
    IF c >= 48 /\ c <= 57 THEN c - 48
    ELSE IF c >= 97 /\ c <= 102 THEN c - 87
    ELSE c - 55

HexDecodeString(s) ==
    IF \E i \in 1..Len(s) : ~IsHexDigit(s[i]) THEN Err(<<"encoding/hex: invalid byte">>)
    ELSE IF Len(s) % 2 = 1 THEN Err(<<"encoding/hex: odd length hex string">>)
    ELSE Ok(AsSeq([i \in 1..(Len(s) \div 2) |-> 16 * HexVal(s[2 * i - 1]) + HexVal(s[2 * i])]))

(***************************************************************************)
(* encoding/base64.StdEncoding.DecodeString (padded standard alphabet).    *)
(***************************************************************************)
IsB64Char(c) ==
    (c >= 65 /\ c <= 90) \/ (c >= 97 /\ c <= 122) \/ (c >= 48 /\ c <= 57) \/ c = 43 \/ c = 47

B64Val(c) ==
    IF c >= 65 /\ c <= 90 THEN c - 65
    ELSE IF c >= 97 /\ c <= 122 THEN c - 71
    ELSE IF c >= 48 /\ c <= 57 THEN c + 4
    ELSE IF c = 43 THEN 62
    ELSE 63

\* number of '=' characters closing the text (0, 1 or 2)
B64Pad(s) ==
    IF Len(s) >= 2 /\ s[Len(s)] = 61 /\ s[Len(s) - 1] = 61 THEN 2
    ELSE IF Len(s) >= 1 /\ s[Len(s)] = 61 THEN 1
    ELSE 0

B64Byte(s, j) ==
    LET q == 4 * ((j - 1) \div 3)
        r == (j - 1) % 3
        v(k) == IF s[q + k] = 61 THEN 0 ELSE B64Val(s[q + k])
    IN  IF r = 0 THEN v(1) * 4 + (v(2) \div 16)
        ELSE IF r = 1 THEN (v(2) % 16) * 16 + (v(3) \div 4)
        ELSE (v(3) % 4) * 64 + v(4)

Base64DecodeString(s) ==
    LET pad == B64Pad(s)
    IN  IF Len(s) % 4 # 0 THEN Err(<<"illegal base64 data">>)
        ELSE IF \E i \in 1..(Len(s) - pad) : ~IsB64Char(s[i]) THEN Err(<<"illegal base64 data">>)
        ELSE Ok(AsSeq([j \in 1..(3 * (Len(s) \div 4) - pad) |-> B64Byte(s, j)]))

(***************************************************************************)
(* net/url.PathUnescape: "%XX" becomes the byte XX, anything else is kept  *)
(* ('+' is kept in path mode); a '%' not followed by two hex digits is an  *)
(* error.                                                                  *)
(***************************************************************************)
RECURSIVE UnescapeFrom(_, _)
UnescapeFrom(s, i) ==
    IF i > Len(s) THEN <<>>
    ELSE IF s[i] = 37
         THEN <<16 * HexVal(s[i + 1]) + HexVal(s[i + 2])>> \o UnescapeFrom(s, i + 3)
         ELSE <<s[i]>> \o UnescapeFrom(s, i + 1)

PathUnescape(s) ==
    IF \E i \in 1..Len(s) :
          s[i] = 37 /\ (i + 2 > Len(s) \/ ~IsHexDigit(s[i + 1]) \/ ~IsHexDigit(s[i + 2]))
    THEN Err(<<"invalid URL escape">>)
    ELSE Ok(UnescapeFrom(s, 1))

(***************************************************************************)
(* crypto/aes and crypto/cipher.  The block cipher is a stand-in for AES:  *)
(* a keyed permutation of 16-byte blocks (a rotation of the positions and  *)
(* a key-dependent byte offset), with AES's rule for the key length.  CBC  *)
(* chaining is modelled exactly: P[i] = D(C[i]) xor C[i-1], C[0] = iv.     *)
(***************************************************************************)
BlockSize == 16

\* aes.NewCipher: the key must be 16, 24 or 32 bytes long (AES-128/192/256)
NewCipherOK(key) == Len(key) \in {16, 24, 32}

KeyStream(key, i) ==
    (key[((i - 1) % Len(key)) + 1] + key[((i + 15) % Len(key)) + 1]) % 256

\* the byte at position j (1..16) of the decryption of the block that
\* starts at offset off of ct
AESDecryptByte(key, ct, off, j) ==
    LET i == ((j + 14) % BlockSize) + 1
    IN  (ct[off + i] + 256 - KeyStream(key, i)) % 256

\* cipher.NewCBCDecrypter(block, iv).CryptBlocks(res, ct), len(ct) a multiple of 16
CBCDecrypt(key, iv, ct) ==
    AsSeq([n \in 1..Len(ct) |->
        LET off == BlockSize * ((n - 1) \div BlockSize)
            j == ((n - 1) % BlockSize) + 1
            prev == IF off = 0 THEN iv[j] ELSE ct[off - BlockSize + j]
        IN  Xor8(AESDecryptByte(key, ct, off, j), prev)])

decipherAES256CBC(data, key) ==
    IF ~NewCipherOK(key) THEN Err(<<"error creating cipher", "invalid key size">>)
    \* line 342: data[:16], data[16:] panic when len(data) < 16 (also when it
    \* is 0, so that the len(data) == 0 test of line 344 is never true)
    ELSE IF Len(data) < BlockSize THEN Panic(<<"slice bounds out of range">>)
    ELSE IF Len(data) = 0 THEN Ok(<<>>)
    ELSE With(data, LAMBDA blob :
         LET iv == SubSeq(blob, 1, BlockSize)
             cipherData == SubSeq(blob, BlockSize + 1, Len(blob))
         IN  \* CryptBlocks panics on a partial block
             IF Len(cipherData) % BlockSize # 0 THEN Panic(<<"crypto/cipher: input not full blocks">>)
             \* res[len(res)-1] with len(res) == 0
             ELSE IF Len(cipherData) = 0 THEN Panic(<<"index out of range [-1]">>)
             ELSE With(CBCDecrypt(key, iv, cipherData), LAMBDA res :
                  LET paddingLen == res[Len(res)]
                  IN  IF paddingLen > Len(res) THEN Err(<<"invalid padding length">>)
                      ELSE Ok(SubSeq(res, 1, Len(res) - paddingLen))))

decipherFontObfuscation(data, key) == Ok(data)

(***************************************************************************)
(* compress/flate.NewReader read to the end by io.Copy.  Stored blocks     *)
(* (BTYPE 00) are decoded as RFC 1951 states; BTYPE 11 is the reserved     *)
(* value and an error; the Huffman block types are outside the inputs of   *)
(* this model and are reported as an error as well.  val is what was       *)
(* decoded before the stream ended or failed.                              *)
(***************************************************************************)
RECURSIVE InflateFrom(_, _)
InflateFrom(s, i) ==
    IF i > Len(s) THEN [kind |-> "err", val |-> <<>>, err |-> <<"unexpected EOF">>]
    ELSE IF (s[i] \div 2) % 4 # 0 THEN [kind |-> "err", val |-> <<>>, err |-> <<"flate: corrupt input">>]
    ELSE IF i + 4 > Len(s) THEN [kind |-> "err", val |-> <<>>, err |-> <<"unexpected EOF">>]
    ELSE LET len == s[i + 1] + 256 * s[i + 2]
             nlen == s[i + 3] + 256 * s[i + 4]
         IN  IF len + nlen # 65535 THEN [kind |-> "err", val |-> <<>>, err |-> <<"flate: corrupt input">>]
             ELSE IF i + 4 + len > Len(s)
                  THEN [kind |-> "err", val |-> SubSeq(s, i + 5, Len(s)), err |-> <<"unexpected EOF">>]
             ELSE IF s[i] % 2 = 1 THEN Ok(SubSeq(s, i + 5, i + 4 + len))
             ELSE LET rest == InflateFrom(s, i + 5 + len)
                  IN  [rest EXCEPT !.val = SubSeq(s, i + 5, i + 4 + len) \o rest.val]

Inflate(s) == InflateFrom(s, 1)

(***************************************************************************)
(* pkg/lcp: decryptFile.  val is what io.Copy wrote to dst.                *)
(***************************************************************************)
EncryptionAlgorithmAES256CBC == "http://www.w3.org/2001/04/xmlenc#aes256-cbc"
EncryptionAlgorithmFontObfuscation == "http://www.idpf.org/2008/embedding"

\* a variant of decryptFile that never inflates
decryptFile_noinflate(encryptedData, contentKey, encryptionAlgorithm, isCompressed) ==
    IF encryptionAlgorithm \notin {EncryptionAlgorithmAES256CBC, EncryptionAlgorithmFontObfuscation}
    THEN Err(<<"invalid encryption algorithm", encryptionAlgorithm>>)
    ELSE With(IF encryptionAlgorithm = EncryptionAlgorithmAES256CBC
              THEN decipherAES256CBC(encryptedData, contentKey)
              ELSE decipherFontObfuscation(encryptedData, contentKey), LAMBDA data :
             IF data.kind = "panic" THEN data
             ELSE IF data.kind = "err" THEN Wrap("error decrypting data", data)
             ELSE Ok(data.val))

decryptFile(encryptedData, contentKey, encryptionAlgorithm, isCompressed) ==
    IF encryptionAlgorithm \notin {EncryptionAlgorithmAES256CBC, EncryptionAlgorithmFontObfuscation}
    THEN Err(<<"invalid encryption algorithm", encryptionAlgorithm>>)
    ELSE With(IF encryptionAlgorithm = EncryptionAlgorithmAES256CBC
              THEN decipherAES256CBC(encryptedData, contentKey)
              ELSE decipherFontObfuscation(encryptedData, contentKey), LAMBDA data :
             IF data.kind = "panic" THEN data
             ELSE IF data.kind = "err" THEN Wrap("error decrypting data", data)
             ELSE IF isCompressed
                  THEN With(Inflate(data.val), LAMBDA c :
                           IF c.kind = "ok" THEN c
                           ELSE [kind |-> "err", val |-> c.val, err |-> <<"error writing data">> \o c.err])
                  ELSE Ok(data.val))

(***************************************************************************)
(* Construction of the inputs: the inverse operations, which the program   *)
(* itself never runs (the packager and the license server run them).       *)
(***************************************************************************)
HexChar(v) == IF v < 10 THEN 48 + v ELSE 87 + v

HexEncodeToString(b) ==
    AsSeq([i \in 1..(2 * Len(b)) |->
        IF i % 2 = 1 THEN HexChar(b[(i + 1) \div 2] \div 16) ELSE HexChar(b[i \div 2] % 16)])

B64Char(v) ==
    IF v < 26 THEN 65 + v
    ELSE IF v < 52 THEN 71 + v
    ELSE IF v < 62 THEN v - 4
    ELSE IF v = 62 THEN 43
    ELSE 47

Base64EncodeToString(b) ==
    LET n == Len(b)
        at(k) == IF k <= n THEN b[k] ELSE 0
    IN  AsSeq([i \in 1..(4 * ((n + 2) \div 3)) |->
            LET g == 3 * ((i - 1) \div 4)
                r == (i - 1) % 4
            IN  IF r = 0 THEN B64Char(at(g + 1) \div 4)
                ELSE IF r = 1 THEN B64Char((at(g + 1) % 4) * 16 + (at(g + 2) \div 16))
                ELSE IF r = 2 THEN (IF g + 2 > n THEN 61
                                    ELSE B64Char((at(g + 2) % 16) * 4 + (at(g + 3) \div 64)))
                ELSE (IF g + 3 > n THEN 61 ELSE B64Char(at(g + 3) % 64))])

PKCS7Pad(p) ==
    LET n == BlockSize - (Len(p) % BlockSize)
    IN  p \o [i \in 1..n |-> n]

RECURSIVE CBCEncrypt(_, _, _)
CBCEncrypt(key, prev, pt) ==
    IF Len(pt) = 0 THEN <<>>
    ELSE LET x == AsSeq([j \in 1..BlockSize |-> Xor8(pt[j], prev[j])])
             c == AsSeq([i \in 1..BlockSize |-> (x[(i % BlockSize) + 1] + KeyStream(key, i)) % 256])
         IN  c \o CBCEncrypt(key, c, SubSeq(pt, BlockSize + 1, Len(pt)))

\* IV || AES-CBC(PKCS#7(p))
Seal(key, iv, p) == iv \o CBCEncrypt(key, iv, PKCS7Pad(p))

\* raw DEFLATE as compress/flate writes it at level NoCompression: one
\* stored block and an empty final stored block
DeflateStored(p) ==
    <<0, Len(p) % 256, Len(p) \div 256, 255 - (Len(p) % 256), 255 - (Len(p) \div 256)>>
        \o p \o <<1, 0, 0, 255, 255>>

(***************************************************************************)
(* Keys, initialization vectors and plaintexts of the inputs.              *)
(***************************************************************************)
UserKey32 == AsSeq([i \in 1..32 |-> i])
\* another 32-byte key: it differs from UserKey32 in its first byte only,
\* so that a blob sealed under UserKey32 still has a valid padding byte
WrongKey32 == AsSeq([i \in 1..32 |-> IF i = 1 THEN 99 ELSE i])
\* a 32-byte key unrelated to UserKey32
OtherKey32 == AsSeq([i \in 1..32 |-> (7 * i + 3) % 256])
UserKey16 == AsSeq([i \in 1..16 |-> 100 + i])
UserKey24 == AsSeq([i \in 1..24 |-> 50 + i])
ShortKey31 == AsSeq([i \in 1..31 |-> i])
ContentKey == AsSeq([i \in 1..32 |-> 200 - i])

IV1 == AsSeq([i \in 1..16 |-> 3 * i])
IV2 == AsSeq([i \in 1..16 |-> 255 - i])

BookID == <<98, 111, 111, 107, 45, 52, 50>>
BookIDExt == <<98, 111, 111, 107, 45, 52, 51>>

PlainE == <<60, 104, 49, 62>>
PlainC == <<60, 112, 62, 120, 60, 47, 112, 62>>
PlainA == <<104, 105>>

(***************************************************************************)
(* License documents.  json.Decoder.Decode is a table from the document    *)
(* texts of the model to the fields Decrypt reads; any other text is       *)
(* malformed.                                                              *)
(***************************************************************************)
LicenseOf(id, key, iv) ==
    [ID |-> id,
     EncryptedValue |-> Base64EncodeToString(Seal(key, iv, ContentKey)),
     KeyCheck |-> Base64EncodeToString(Seal(key, iv, id))]

LicEmbedded == LicenseOf(BookID, UserKey32, IV1)
LicExternal == LicenseOf(BookIDExt, UserKey32, IV2)
LicAES128 == LicenseOf(BookID, UserKey16, IV1)
LicAES192 == LicenseOf(BookID, UserKey24, IV2)
\* a license whose key check does not decrypt to its id under any key here
LicForeign == [LicenseOf(BookIDExt, UserKey32, IV1) EXCEPT !.ID = BookID]
\* a license whose content key field is not base64
LicBadValue == [LicEmbedded EXCEPT !.EncryptedValue = <<42, 42, 42, 42>>]

\* licenses whose key check blob is empty, is an IV and nothing else, ends in
\* a partial block, or decrypts to a padding byte larger than the data
LicEmptyCheck == [LicEmbedded EXCEPT !.KeyCheck = <<>>]
\* a license whose content key blob is empty
LicEmptyValue == [LicEmbedded EXCEPT !.EncryptedValue = <<>>]
LicIVOnly == [LicEmbedded EXCEPT !.KeyCheck = Base64EncodeToString(IV1)]
LicPartial == [LicEmbedded EXCEPT !.KeyCheck = Base64EncodeToString(IV1 \o <<1, 2, 3>>)]
LicBadPadding ==
    [LicEmbedded EXCEPT !.KeyCheck =
        Base64EncodeToString(IV1 \o CBCEncrypt(UserKey32, IV1, AsSeq([i \in 1..16 |-> 200])))]

TextLicEmbedded == <<123, 1>>
TextLicExternal == <<123, 2>>
TextLicAES128 == <<123, 3>>
TextLicAES192 == <<123, 4>>
TextLicForeign == <<123, 5>>
TextLicBadValue == <<123, 6>>
TextLicEmptyCheck == <<123, 7>>
TextLicIVOnly == <<123, 8>>
TextLicPartial == <<123, 9>>
TextLicBadPadding == <<123, 10>>
TextLicEmptyValue == <<123, 11>>
TextMalformed == <<123, 0>>

JSONDecode(text) ==
    IF text = TextLicEmbedded THEN Ok(LicEmbedded)
    ELSE IF text = TextLicExternal THEN Ok(LicExternal)
    ELSE IF text = TextLicAES128 THEN Ok(LicAES128)
    ELSE IF text = TextLicAES192 THEN Ok(LicAES192)
    ELSE IF text = TextLicForeign THEN Ok(LicForeign)
    ELSE IF text = TextLicBadValue THEN Ok(LicBadValue)
    ELSE IF text = TextLicEmptyCheck THEN Ok(LicEmptyCheck)
    ELSE IF text = TextLicIVOnly THEN Ok(LicIVOnly)
    ELSE IF text = TextLicPartial THEN Ok(LicPartial)
    ELSE IF text = TextLicBadPadding THEN Ok(LicBadPadding)
    ELSE IF text = TextLicEmptyValue THEN Ok(LicEmptyValue)
    ELSE Err(<<"invalid character">>)

(***************************************************************************)
(* Encryption manifests.  xml.Decoder.Decode is a table from the manifest  *)
(* texts of the model to the fields listEncryptedFiles reads: per          *)
(* EncryptedData record the Algorithm attribute, the CipherReference URI   *)
(* and, per EncryptionProperty, the Method codes of its Compression        *)
(* elements.                                                               *)
(***************************************************************************)
AlgorithmAES128CBC == "http://www.w3.org/2001/04/xmlenc#aes128-cbc"

NameMimetype == <<109, 105, 109, 101, 116, 121, 112, 101>>
NameEncryptionXML ==
    <<77, 69, 84, 65, 45, 73, 78, 70, 47, 101, 110, 99, 114, 121, 112, 116, 105, 111, 110, 46, 120, 109, 108>>
NameLicenseLCPL ==
    <<77, 69, 84, 65, 45, 73, 78, 70, 47, 108, 105, 99, 101, 110, 115, 101, 46, 108, 99, 112, 108>>
MimetypeContent ==
    <<97, 112, 112, 108, 105, 99, 97, 116, 105, 111, 110, 47, 101, 112, 117, 98, 43, 122, 105, 112>>

NameA == <<97>>                 \* "a"
NameC == <<99>>                 \* "c"
NameE == <<101, 32, 49>>        \* "e 1"
NameD == <<100, 47>>            \* "d/"
URIE == <<101, 37, 50, 48, 49>> \* "e%201"
URID == <<100, 37, 50, 70>>     \* "d%2F"
URIBad == <<37, 122, 122>>      \* "%zz"

EncryptedData(alg, uri, methods) == [Algorithm |-> alg, URI |-> uri, Compression |-> methods]

\* no protected file
ManifestEmpty == <<>>
\* "e 1" AES, "c" AES and deflated
ManifestStd ==
    <<EncryptedData(EncryptionAlgorithmAES256CBC, URIE, <<>>),
      EncryptedData(EncryptionAlgorithmAES256CBC, NameC, <<<<8>>>>)>>
\* a supported record, then one with an unknown algorithm
ManifestUnsupported ==
    <<EncryptedData(EncryptionAlgorithmAES256CBC, NameC, <<<<8>>>>),
      EncryptedData(AlgorithmAES128CBC, NameA, <<>>)>>
\* the directory "d/" listed as AES, "a" listed as an obfuscated font
ManifestDir ==
    <<EncryptedData(EncryptionAlgorithmAES256CBC, URID, <<>>),
      EncryptedData(EncryptionAlgorithmFontObfuscation, NameA, <<<<0>>>>)>>
\* "c" listed twice: the last record (deflated, in a second property) wins
ManifestDup ==
    <<EncryptedData(EncryptionAlgorithmFontObfuscation, NameC, <<>>),
      EncryptedData(EncryptionAlgorithmAES256CBC, NameC, <<<<>>, <<1, 8>>>>)>>
\* a path that does not unescape, in front of an unknown algorithm
ManifestBadPath ==
    <<EncryptedData(EncryptionAlgorithmAES256CBC, URIBad, <<>>),
      EncryptedData(AlgorithmAES128CBC, NameA, <<>>)>>

TextManifestEmpty == <<60, 0>>
TextManifestStd == <<60, 1>>
TextManifestUnsupported == <<60, 2>>
TextManifestDir == <<60, 3>>
TextManifestDup == <<60, 4>>
TextManifestBadPath == <<60, 5>>

XMLDecode(text) ==
    IF text = TextManifestEmpty THEN Ok(ManifestEmpty)
    ELSE IF text = TextManifestStd THEN Ok(ManifestStd)
    ELSE IF text = TextManifestUnsupported THEN Ok(ManifestUnsupported)
    ELSE IF text = TextManifestDir THEN Ok(ManifestDir)
    ELSE IF text = TextManifestDup THEN Ok(ManifestDup)
    ELSE IF text = TextManifestBadPath THEN Ok(ManifestBadPath)
    ELSE Err(<<"XML syntax error">>)

(***************************************************************************)
(* archive/zip.Reader as an fs.FS: Open(name) finds the entry by name.     *)
(***************************************************************************)
ZipOpen(File, name) ==
    LET found == {i \in 1..Len(File) : File[i].Name = name}
    IN  IF found = {} THEN Err(<<"file does not exist">>)
        ELSE Ok(File[CHOOSE i \in found : \A j \in found : i <= j].Data)

(***************************************************************************)
(* pkg/lcp: listEncryptedFiles, groupFileEntriesByPath, getContentKey      *)
(***************************************************************************)
FileEntry(path, isCompressed, alg) ==
    [Path |-> path, IsCompressed |-> isCompressed, EncryptionAlgorithm |-> alg]

\* PropertyLoop: some Compression of some EncryptionProperty has Method 8
IsCompressed(d) ==
    \E p \in 1..Len(d.Compression) :
        \E c \in 1..Len(d.Compression[p]) : d.Compression[p][c] = 8

\* a variant of the switch of lines 255-260 that lets every identifier through
IsSupportedAlgorithm_any(alg) == TRUE

\* the switch of lines 255-260
IsSupportedAlgorithm(alg) ==
    alg \in {EncryptionAlgorithmAES256CBC, EncryptionAlgorithmFontObfuscation}

RECURSIVE listRecords(_, _, _)
listRecords(recs, i, res) ==
    IF i > Len(recs) THEN Ok(res)
    ELSE LET d == recs[i]
             path == PathUnescape(d.URI)
         IN  IF path.kind # "ok" THEN Wrap("error decoding entry path", path)
             ELSE IF ~IsSupportedAlgorithm(d.Algorithm)
                  THEN Err(<<"unsupported encryption algorithm for file", path.val, d.Algorithm>>)
             ELSE listRecords(recs, i + 1,
                              Append(res, FileEntry(path.val, IsCompressed(d), d.Algorithm)))

listEncryptedFiles(File) ==
    LET encFile == ZipOpen(File, NameEncryptionXML)
    IN  IF encFile.kind # "ok" THEN Wrap("error opening file", encFile)
        ELSE LET encryption == XMLDecode(encFile.val)
             IN  IF encryption.kind # "ok" THEN Wrap("error decoding file", encryption)
                 ELSE listRecords(encryption.val, 1, <<>>)

\* the map as a function from the listed paths; a later record replaces an
\* earlier one of the same path
groupFileEntriesByPath(strs) ==
    [p \in {strs[i].Path : i \in 1..Len(strs)} |->
        strs[CHOOSE i \in 1..Len(strs) :
                /\ strs[i].Path = p
                /\ \A j \in 1..Len(strs) : strs[j].Path = p => j <= i]]

\* an io.Reader handed to Decrypt: typ "nil" is the nil interface, valid is
\* FALSE for a non-nil interface that holds a nil *os.File (its Read returns
\* os.ErrInvalid), data is the text the reader yields
NilReader == [typ |-> "nil", valid |-> FALSE, data |-> <<>>]
NilFilePointer == [typ |-> "*os.File", valid |-> FALSE, data |-> <<>>]
OpenFile(text) == [typ |-> "*os.File", valid |-> TRUE, data |-> text]
ZipFile(text) == [typ |-> "fs.File", valid |-> TRUE, data |-> text]

\* a variant of the comparison of line 319 that accepts every key check
KeyCheckMatches_always(keyCheck, id) == TRUE

\* the comparison of line 319
KeyCheckMatches(keyCheck, id) == keyCheck = id

\* the result carries, besides the content key or the error, the blobs that
\* were handed to decipherAES256CBC, in order
KeyResult(r, calls) == [kind |-> r.kind, val |-> r.val, err |-> r.err, deciphered |-> calls]

getContentKey(licenseFile, userKey) ==
    With(IF licenseFile.valid THEN JSONDecode(licenseFile.data)
         ELSE Err(<<"invalid argument">>), LAMBDA license :
    IF license.kind # "ok" THEN KeyResult(Wrap("error decoding json", license), <<>>)
    ELSE
    With(Base64DecodeString(license.val.KeyCheck), LAMBDA encryptedKeyCheck :
    IF encryptedKeyCheck.kind # "ok"
    THEN KeyResult(Wrap("error decoding key check", encryptedKeyCheck), <<>>)
    ELSE
    With(decipherAES256CBC(encryptedKeyCheck.val, userKey), LAMBDA keyCheck :
    LET c1 == <<[what |-> "key_check", key |-> userKey]>>
    IN  IF keyCheck.kind = "panic" THEN KeyResult(keyCheck, c1)
        ELSE IF keyCheck.kind = "err"
             THEN KeyResult(Wrap("error decrypting key check", keyCheck), c1)
        ELSE IF ~KeyCheckMatches(keyCheck.val, license.val.ID)
             THEN KeyResult(Err(<<"decrypted key check does not match license ID">>), c1)
        ELSE
        With(Base64DecodeString(license.val.EncryptedValue), LAMBDA encryptedContentKey :
        IF encryptedContentKey.kind # "ok"
        THEN KeyResult(Wrap("error decoding content key", encryptedContentKey), c1)
        ELSE
        With(decipherAES256CBC(encryptedContentKey.val, userKey), LAMBDA contentKey :
        LET c2 == Append(c1, [what |-> "content_key", key |-> userKey])
        IN  IF contentKey.kind = "panic" THEN KeyResult(contentKey, c2)
            ELSE IF contentKey.kind = "err"
                 THEN KeyResult(Wrap("error decrypting content key", contentKey), c2)
            ELSE KeyResult(contentKey, c2))))))

(***************************************************************************)
(* The inputs of a run.                                                    *)
(***************************************************************************)
\* the longest list of content entries of a source archive
MaxEntries == 2

Entry(name, data) == [Name |-> name, Data |-> data]

\* a source "mimetype" entry whose content is not the EPUB media type
EntryMimetype == Entry(NameMimetype, <<120>>)
EntryA == Entry(NameA, PlainA)
EntryE == Entry(NameE, Seal(ContentKey, IV1, PlainE))
EntryC == Entry(NameC, Seal(ContentKey, IV2, DeflateStored(PlainC)))
EntryD == Entry(NameD, <<>>)

ContentPool == {EntryMimetype, EntryA, EntryE, EntryC, EntryD}

ContentLists == UNION {[1..n -> ContentPool] : n \in 0..MaxEntries}

ManifestTexts ==
    {TextManifestEmpty, TextManifestStd, TextManifestUnsupported, TextManifestDir,
     TextManifestDup, TextManifestBadPath, TextMalformed}

\* at most one license entry and one manifest entry, next to each other
MetaEntries(lic, man) ==
    (IF lic = <<>> THEN <<>> ELSE <<Entry(NameLicenseLCPL, lic)>>)
        \o (IF man = <<>> THEN <<>> ELSE <<Entry(NameEncryptionXML, man)>>)

Archive(comment, files, pos, lic, man) ==
    [Comment |-> comment,
     File |-> SubSeq(files, 1, pos) \o MetaEntries(lic, man) \o SubSeq(files, pos + 1, Len(files))]

NoLicenseFile == [given |-> FALSE, text |-> <<>>]
LicenseFileOf(text) == [given |-> TRUE, text |-> text]

UserKeyHexes ==
    {HexEncodeToString(UserKey32), HexEncodeToString(WrongKey32), HexEncodeToString(OtherKey32),
     HexEncodeToString(UserKey16), HexEncodeToString(UserKey24), HexEncodeToString(ShortKey31),
     <<>>, <<122, 122>>, <<49, 50, 51>>}

VARIABLES
    caller,        \* "cli": cmd/lcp-decrypt runs; "lib": lcp.Decrypt is called directly
    userKeyHex,    \* the -userKey flag / the userKeyHex argument
    inFile,        \* the source archive: [Comment, File]
    extLicense,    \* the -licenseFile flag / the external license document
    pc,            \* position in run and Decrypt
    licenseFile,   \* Decrypt's licenseFile argument (an io.Reader)
    licenseText,   \* the license document getContentKey decoded
    userKey,
    contentKey,
    encryptedFiles,
    idx,           \* index in inFile.File of the entry the loop is at
    outZip,        \* the destination archive: [created, Comment, File, closed]
    opened,        \* indexes of the source entries whose data stream was opened (f.Open)
    deciphered,    \* the calls of decipherAES256CBC: [what, key, entry]
    result,        \* what Decrypt returned
    outFileExists, \* cmd/lcp-decrypt: the output file is on disk
    exit,          \* cmd/lcp-decrypt: exit status, -1 while running
    fault,         \* the one operation of the environment that fails: [op, at]
    streams,       \* the source streams that are open: 0 the license entry, i the entry i
    emptyInput,    \* the input has no bytes at all
    busy,          \* main.js: the busy flag of the submit handler
    disabled,      \* main.js: the submit button is disabled
    reading,       \* main.js: the decrypt calls that await file.arrayBuffer()
    js,            \* main.js: where the decrypt call that runs is
    handles,       \* wasm.go: the handles table, a set of [ptr, bytes]
    handlesBefore, \* the handles table when the decrypt call that runs began
    goFile,        \* main.js decrypt: the pointers it holds, 0 for nil
    goKey,
    submits,       \* the submit events so far
    started        \* the decrypt calls so far

vars ==
    <<caller, userKeyHex, inFile, extLicense, pc, licenseFile, licenseText, userKey, contentKey,
      encryptedFiles, idx, outZip, opened, deciphered, result, outFileExists, exit, fault,
      streams, emptyInput, busy, disabled, reading, js, handles, handlesBefore, goFile, goKey,
      submits, started>>

inputs == <<caller, userKeyHex, inFile, extLicense, fault, emptyInput>>

\* the state of the page and of the wasm instance
web == <<busy, disabled, reading, js, handles, handlesBefore, goFile, goKey, submits, started>>

NoResult == [kind |-> "none", val |-> <<>>, err |-> <<>>]
NoWriter == [created |-> FALSE, Comment |-> <<>>, File |-> <<>>, closed |-> FALSE]

InitRun ==
    /\ pc = "idle"
    /\ licenseFile = NilReader
    /\ licenseText = <<>>
    /\ userKey = <<>>
    /\ contentKey = <<>>
    /\ encryptedFiles = <<>>
    /\ idx = 1
    /\ outZip = NoWriter
    /\ opened = {}
    /\ deciphered = <<>>
    /\ result = NoResult
    /\ outFileExists = FALSE
    /\ exit = -1
    /\ streams = {}
    /\ busy = FALSE
    /\ disabled = FALSE
    /\ reading = 0
    /\ js = "none"
    /\ handles = {}
    /\ handlesBefore = {}
    /\ goFile = 0
    /\ goKey = 0
    /\ submits = 0
    /\ started = 0

\* the environment: at most one operation of a run fails, at one entry
NoFault == [op |-> "none", at |-> 0]
FaultAt(op, i) == [op |-> op, at |-> i]

\* every archive layout, under the right user key
InitArchives ==
    /\ fault = NoFault
    /\ emptyInput = FALSE
    /\ caller = "lib"
    /\ userKeyHex = HexEncodeToString(UserKey32)
    /\ extLicense = NoLicenseFile
    /\ \E files \in ContentLists, lic \in {<<>>, TextLicEmbedded}, man \in {<<>>} \cup ManifestTexts :
          \E pos \in 0..Len(files) :
              inFile = Archive(<<67>>, files, pos, lic, man)

\* every user key, license and caller, on one archive layout
InitKeys ==
    /\ fault = NoFault
    /\ emptyInput = FALSE
    /\ caller \in {"cli", "lib"}
    /\ userKeyHex \in UserKeyHexes
    /\ extLicense \in {NoLicenseFile} \cup
          {LicenseFileOf(t) : t \in {TextLicExternal, TextLicAES128, TextLicForeign, TextMalformed}}
    /\ \E lic \in {<<>>, TextLicEmbedded, TextLicAES128, TextLicAES192, TextLicForeign,
                   TextLicBadValue, TextLicEmptyCheck, TextLicIVOnly, TextLicPartial,
                   TextLicBadPadding, TextLicEmptyValue, TextMalformed} :
          \E comment \in {<<>>, <<67, 67>>} :
              inFile = Archive(comment, <<EntryE, EntryMimetype, EntryC>>, 1, lic, TextManifestStd)

\* an entry the manifest lists as AES256CBC whose data is empty
EntryEmpty == Entry(NameE, <<>>)

\* the operations on an entry that can fail: outZip.Create, f.Open, the read
\* of the source stream, srcFile.Close
EntryFaults == {"create", "open", "read", "close"}

\* the other operations that can fail: outZip.Close, and in cmd/lcp-decrypt
\* os.Open of the license file, os.Remove and outFd.Sync
RunFaults == {"finalize", "licenseOpen", "remove", "sync"}

\* an entry the manifest lists as AES256CBC whose last plaintext byte is a
\* padding length larger than the plaintext
EntryBadPadding ==
    Entry(NameE, IV1 \o CBCEncrypt(ContentKey, IV1, AsSeq([i \in 1..16 |-> 200])))

FaultFiles ==
    {<<EntryE, EntryA, EntryC>>, <<EntryA, EntryEmpty, EntryC>>, <<EntryA, EntryBadPadding, EntryC>>}

\* every failure of the environment, on two archive layouts, under the right
\* user key; the command line is given the external license or none
InitFaults ==
    /\ emptyInput = FALSE
    /\ caller \in {"cli", "lib"}
    /\ userKeyHex = HexEncodeToString(UserKey32)
    /\ extLicense \in IF caller = "cli"
                      THEN {NoLicenseFile, LicenseFileOf(TextLicExternal)}
                      ELSE {NoLicenseFile}
    /\ \E files \in FaultFiles :
          /\ inFile = Archive(<<67>>, files, 1, TextLicEmbedded, TextManifestStd)
          /\ fault \in {NoFault} \cup {FaultAt(op, 0) : op \in RunFaults}
                      \cup {FaultAt(op, i) : op \in EntryFaults, i \in 1..(Len(files) + 2)}

\* the submit events of one page
MaxSubmits == 3

\* the failures of the browser side: file.arrayBuffer() rejects, newBytes
\* runs out of memory for the file buffer or for the key buffer
WebFaults == {"arrayBuffer", "allocFile", "allocKey"}

\* the page: a file and a key text in the form, the wasm instance loaded
InitWeb ==
    /\ caller = "web"
    /\ extLicense = NoLicenseFile
    /\ userKeyHex \in {HexEncodeToString(UserKey32), HexEncodeToString(WrongKey32), <<>>, <<122, 122>>}
    /\ emptyInput \in BOOLEAN
    /\ \E files \in FaultFiles :
          inFile = Archive(<<67>>, files, 1, TextLicEmbedded, TextManifestStd)
    /\ fault \in {NoFault, FaultAt("finalize", 0), FaultAt("read", 1)}
                  \cup {FaultAt(op, 0) : op \in WebFaults}

InitPage == InitRun /\ InitWeb

Init == InitRun /\ (InitArchives \/ InitKeys \/ InitFaults)

(***************************************************************************)
(* cmd/lcp-decrypt: run, up to its call of lcp.Decrypt.  Without           *)
(* -licenseFile the variable licenseFd keeps its zero value, a nil         *)
(* *os.File, and that pointer is what is passed as the io.Reader.          *)
(***************************************************************************)
CliLicenseArg(flag) == IF flag.given THEN OpenFile(flag.text) ELSE NilFilePointer

CliRun ==
    /\ pc = "idle" /\ caller = "cli"
    /\ outFileExists' = TRUE
    /\ IF extLicense.given /\ fault.op = "licenseOpen"
       THEN exit' = 1 /\ pc' = "exited" /\ UNCHANGED licenseFile
       ELSE licenseFile' = CliLicenseArg(extLicense) /\ pc' = "decode" /\ UNCHANGED exit
    /\ UNCHANGED <<inputs, web, streams, licenseText, userKey, contentKey, encryptedFiles, idx, outZip,
                   opened, deciphered, result>>

\* a direct call of lcp.Decrypt: nil when there is no external license
LibCall ==
    /\ pc = "idle" /\ caller = "lib"
    /\ licenseFile' = IF extLicense.given THEN OpenFile(extLicense.text) ELSE NilReader
    /\ pc' = "decode"
    /\ UNCHANGED <<inputs, web, streams, licenseText, userKey, contentKey, encryptedFiles, idx, outZip,
                   opened, deciphered, result, outFileExists, exit>>

(***************************************************************************)
(* pkg/lcp: Decrypt, in the order of its statements.                       *)
(***************************************************************************)
Return(r) == result' = r /\ pc' = "returned"

\* lines 109-121
DecodeUserKey ==
    /\ pc = "decode"
    /\ LET decoded == HexDecodeString(userKeyHex)
       IN  IF userKeyHex = <<>>
           THEN Return(Err(<<"user key not specified">>)) /\ UNCHANGED userKey
           ELSE IF decoded.kind # "ok"
           THEN Return(Wrap("error decoding user key", decoded)) /\ UNCHANGED userKey
           ELSE IF emptyInput
           THEN Return(Err(<<"error opening input file", "zip: not a valid zip file">>))
                /\ userKey' = decoded.val
           ELSE userKey' = decoded.val /\ pc' = "license" /\ UNCHANGED result
    /\ UNCHANGED <<inputs, web, streams, licenseFile, licenseText, contentKey, encryptedFiles, idx, outZip,
                   opened, deciphered, outFileExists, exit>>

\* the test of line 123
IsNilInterface(r) == r.typ = "nil"

\* lines 123-129
OpenLicense ==
    /\ pc = "license"
    /\ IF IsNilInterface(licenseFile)
       THEN LET tempLicenseFile == ZipOpen(inFile.File, NameLicenseLCPL)
            IN  IF tempLicenseFile.kind # "ok"
                THEN Return(Wrap("error opening license file", tempLicenseFile))
                     /\ UNCHANGED <<licenseFile, streams>>
                ELSE licenseFile' = ZipFile(tempLicenseFile.val) /\ pc' = "key"
                     /\ streams' = streams \cup {0}
                     /\ UNCHANGED result
       ELSE pc' = "key" /\ UNCHANGED <<licenseFile, result, streams>>
    /\ UNCHANGED <<inputs, web, licenseText, userKey, contentKey, encryptedFiles, idx, outZip,
                   opened, deciphered, outFileExists, exit>>

\* lines 131-134
GetContentKey ==
    /\ pc = "key"
    /\ \E r \in {getContentKey(licenseFile, userKey)} :
           /\ licenseText' = IF licenseFile.valid THEN licenseFile.data ELSE <<>>
           /\ deciphered' = deciphered \o
                 [i \in 1..Len(r.deciphered) |->
                     [what |-> r.deciphered[i].what, key |-> r.deciphered[i].key, entry |-> 0]]
           /\ IF r.kind = "panic"
              THEN Return(Panic(r.err)) /\ UNCHANGED contentKey
              ELSE IF r.kind = "err"
              THEN Return(Err(<<"error getting content key">> \o r.err)) /\ UNCHANGED contentKey
              ELSE contentKey' = r.val /\ pc' = "manifest" /\ UNCHANGED result
    /\ UNCHANGED <<inputs, web, streams, licenseFile, userKey, encryptedFiles, idx, outZip, opened,
                   outFileExists, exit>>

\* lines 136-139
ListEncryptedFiles ==
    /\ pc = "manifest"
    /\ LET r == listEncryptedFiles(inFile.File)
       IN  IF r.kind # "ok"
           THEN Return(Wrap("error listing encrypted files", r)) /\ UNCHANGED encryptedFiles
           ELSE encryptedFiles' = r.val /\ pc' = "begin" /\ UNCHANGED result
    /\ UNCHANGED <<inputs, web, streams, licenseFile, licenseText, userKey, contentKey, idx, outZip, opened,
                   deciphered, outFileExists, exit>>

\* zip.Writer.CreateHeader / Create: the header of a new destination entry;
\* Create asks for Deflate, and a name ending in "/" is stored
ZipEntry(name, method) ==
    [Name |-> name, Method |-> IF HasSuffixSlash(name) THEN "Store" ELSE method, Data |-> <<>>]

\* a variant of the header of lines 151-154 that leaves the method to Create's default
MimetypeHeader_deflate == ZipEntry(NameMimetype, "Deflate")

\* the header of lines 151-154
MimetypeHeader == ZipEntry(NameMimetype, "Store")

\* lines 141-158: the writer, the comment, the "mimetype" entry
BeginOutput ==
    /\ pc = "begin"
    /\ outZip' = [created |-> TRUE,
                  Comment |-> inFile.Comment,
                  File |-> <<[MimetypeHeader EXCEPT !.Data = MimetypeContent]>>,
                  closed |-> FALSE]
    /\ idx' = 1
    /\ pc' = "entries"
    /\ UNCHANGED <<inputs, web, streams, licenseFile, licenseText, userKey, contentKey, encryptedFiles,
                   opened, deciphered, result, outFileExists, exit>>

\* a variant of the switch of lines 161-164 that forgets the source "mimetype"
IsSkipped_meta(name) == name \in {NameEncryptionXML, NameLicenseLCPL}

\* the switch of lines 161-164
IsSkipped(name) == name \in {NameEncryptionXML, NameLicenseLCPL, NameMimetype}

\* a variant of lines 182-186 that sends every entry through the AES pipeline
TranscodeEntry_all(f, set, key) ==
    decryptFile(f.Data, key, EncryptionAlgorithmAES256CBC, FALSE)

\* lines 182-186: what is written to dstFile, and whether it went well
TranscodeEntry(f, set, key) ==
    IF f.Name \in DOMAIN set
    THEN decryptFile(f.Data, key, set[f.Name].EncryptionAlgorithm, set[f.Name].IsCompressed)
    ELSE Ok(f.Data)

\* the fault of the environment strikes operation op of the entry at index i
Fails(op, i) == fault.op = op /\ fault.at = i

\* lines 182-186 on a source stream whose read fails: io.ReadAll in
\* decryptFile, or io.Copy
ReadFailure(f, set) ==
    IF f.Name \in DOMAIN set
    THEN Err(<<"error reading data", "unexpected EOF">>)
    ELSE Err(<<"unexpected EOF">>)

\* lines 160-195: one iteration of the loop over inFile.File
ProcessEntry ==
    /\ pc = "entries" /\ idx <= Len(inFile.File)
    /\ \E encryptedFilesSet \in {groupFileEntriesByPath(encryptedFiles)} :
       \E r \in {IF Fails("read", idx) THEN ReadFailure(inFile.File[idx], encryptedFilesSet)
                 ELSE TranscodeEntry(inFile.File[idx], encryptedFilesSet, contentKey)} :
       LET f == inFile.File[idx]
           dstFile == ZipEntry(f.Name, "Deflate")
           isAES == /\ f.Name \in DOMAIN encryptedFilesSet
                    /\ encryptedFilesSet[f.Name].EncryptionAlgorithm = EncryptionAlgorithmAES256CBC
       IN  IF IsSkipped(f.Name)
           THEN idx' = idx + 1 /\ UNCHANGED <<outZip, opened, deciphered, result, pc, streams>>
           ELSE IF Fails("create", idx)
           THEN /\ Return(Err(<<"error appending file", f.Name, "write error">>))
                /\ UNCHANGED <<outZip, opened, deciphered, idx, streams>>
           ELSE IF HasSuffixSlash(f.Name)
           THEN /\ outZip' = [outZip EXCEPT !.File = Append(@, dstFile)]
                /\ idx' = idx + 1
                /\ UNCHANGED <<opened, deciphered, result, pc, streams>>
           ELSE IF Fails("open", idx)
           THEN /\ outZip' = [outZip EXCEPT !.File = Append(@, dstFile)]
                /\ Return(Err(<<"error opening file", f.Name, "unsupported compression algorithm">>))
                /\ UNCHANGED <<opened, deciphered, idx, streams>>
           ELSE /\ outZip' = [outZip EXCEPT !.File = Append(@, [dstFile EXCEPT !.Data = r.val])]
                /\ opened' = opened \cup {idx}
                /\ deciphered' = IF isAES /\ ~Fails("read", idx)
                                 THEN Append(deciphered, [what |-> "file", key |-> contentKey, entry |-> idx])
                                 ELSE deciphered
                /\ IF r.kind = "panic"
                   THEN Return(Panic(r.err)) /\ streams' = streams \cup {idx} /\ UNCHANGED idx
                   ELSE IF r.kind = "err"
                   THEN /\ Return(Err(<<"error copying data for file", f.Name>> \o r.err))
                        /\ streams' = streams \cup {idx}
                        /\ UNCHANGED idx
                   ELSE IF Fails("close", idx)
                   THEN /\ Return(Err(<<"error closing file", f.Name, "close error">>))
                        /\ UNCHANGED <<idx, streams>>
                   ELSE idx' = idx + 1 /\ UNCHANGED <<result, pc, streams>>
    /\ UNCHANGED <<inputs, web, licenseFile, licenseText, userKey, contentKey, encryptedFiles,
                   outFileExists, exit>>

\* lines 197-203
Finalize ==
    /\ pc = "entries" /\ idx > Len(inFile.File)
    /\ IF fault.op = "finalize"
       THEN Return(Err(<<"error finalizing output zip file", "write error">>))
            /\ UNCHANGED outZip
       ELSE outZip' = [outZip EXCEPT !.closed = TRUE] /\ Return(Ok(<<>>))
    /\ UNCHANGED <<inputs, web, streams, licenseFile, licenseText, userKey, contentKey,
                   encryptedFiles, idx, opened, deciphered, outFileExists, exit>>

(***************************************************************************)
(* cmd/lcp-decrypt: run after lcp.Decrypt returned (lines 89-98), and      *)
(* main.  A panic ends the process where it is raised.                     *)
(***************************************************************************)
CliFinish ==
    /\ pc = "returned" /\ caller = "cli"
    /\ outFileExists' = IF result.kind = "err" /\ fault.op # "remove" THEN FALSE
                        ELSE outFileExists
    /\ exit' = IF result.kind = "ok" THEN (IF fault.op = "sync" THEN 1 ELSE 0)
               ELSE IF result.kind = "err" THEN 1 ELSE 2
    /\ pc' = "exited"
    /\ UNCHANGED <<inputs, web, streams, licenseFile, licenseText, userKey, contentKey, encryptedFiles, idx,
                   outZip, opened, deciphered, result>>

(***************************************************************************)
(* pkg/wasm: the page (main.js) and the exported functions of wasm.go.     *)
(* JavaScript runs one callback to its end before the next event: a submit *)
(* event is handled only while no callback runs, that is while no decrypt  *)
(* call is in flight or while one awaits file.arrayBuffer().               *)
(***************************************************************************)

\* a variant of the test of lines 113-120 that does not look at the busy flag
SubmitIgnored_nobusy(b, key) == key = <<>>

\* the test of lines 113-120; the form holds a file
SubmitIgnored(b, key) == b \/ key = <<>>

\* main.js lines 107-126, and decrypt up to its await on line 69
Submit ==
    /\ caller = "web" /\ js = "none" /\ submits < MaxSubmits
    /\ submits' = submits + 1
    /\ IF SubmitIgnored(busy, userKeyHex)
       THEN UNCHANGED <<busy, disabled, reading, started>>
       ELSE /\ busy' = TRUE
            /\ disabled' = TRUE
            /\ reading' = reading + 1
            /\ started' = started + 1
    /\ UNCHANGED <<inputs, js, handles, handlesBefore, goFile, goKey, streams, pc, licenseFile,
                   licenseText, userKey, contentKey, encryptedFiles, idx, outZip, opened,
                   deciphered, result, outFileExists, exit>>

\* main.js line 69: file.arrayBuffer() settles and decrypt goes on
ReadFile ==
    /\ caller = "web" /\ js = "none" /\ reading > 0
    /\ reading' = reading - 1
    /\ handlesBefore' = handles
    /\ js' = IF fault.op = "arrayBuffer" THEN "rejected" ELSE "alloc"
    /\ UNCHANGED <<inputs, busy, disabled, handles, goFile, goKey, submits, started, streams, pc,
                   licenseFile, licenseText, userKey, contentKey, encryptedFiles, idx, outZip,
                   opened, deciphered, result, outFileExists, exit>>

\* an address that is not a key of the table
FreshPtr(table) == CHOOSE p \in 1..(Cardinality(table) + 1) : \A h \in table : h.ptr # p

\* wasm.go newHandle, lines 22-28
newHandle(table, bytes, empty) ==
    IF empty THEN [ptr |-> 0, table |-> table]
    ELSE [ptr |-> FreshPtr(table), table |-> table \cup {[ptr |-> FreshPtr(table), bytes |-> bytes]}]

\* wasm.go freeBytes, lines 31-33
freeBytes(table, ptr) == {h \in table : h.ptr # ptr}

\* main.js lines 70-75: the two buffers, outside the try block, and the call
\* of the exported decrypt, which calls lcp.Decrypt on fresh locals
AllocBuffers ==
    /\ caller = "web" /\ js = "alloc"
    /\ LET file == newHandle(handles, "file", emptyInput)
           key == newHandle(file.table, "key", FALSE)
       IN  IF fault.op = "allocFile" /\ ~emptyInput
           THEN /\ js' = "rejected"
                /\ UNCHANGED <<handles, goFile, goKey, pc, licenseFile, licenseText, userKey,
                               contentKey, encryptedFiles, idx, outZip, opened, deciphered,
                               result, streams>>
           ELSE IF fault.op = "allocKey"
           THEN /\ js' = "rejected"
                /\ handles' = file.table
                /\ goFile' = file.ptr
                /\ UNCHANGED <<goKey, pc, licenseFile, licenseText, userKey, contentKey,
                               encryptedFiles, idx, outZip, opened, deciphered, result, streams>>
           ELSE /\ js' = "call"
                /\ handles' = key.table
                /\ goFile' = file.ptr
                /\ goKey' = key.ptr
                /\ pc' = "decode"
                /\ licenseFile' = NilReader
                /\ licenseText' = <<>>
                /\ userKey' = <<>>
                /\ contentKey' = <<>>
                /\ encryptedFiles' = <<>>
                /\ idx' = 1
                /\ outZip' = NoWriter
                /\ opened' = {}
                /\ deciphered' = <<>>
                /\ result' = NoResult
                /\ streams' = {}
    /\ UNCHANGED <<inputs, busy, disabled, reading, handlesBefore, submits, started,
                   outFileExists, exit>>

\* wasm.go lines 45-49 once lcp.Decrypt is over, and main.js lines 75-90:
\* a failure is a panic of the exported decrypt, which main.js sees as an
\* exception; otherwise the output gets a handle and is downloaded; the
\* finally block frees what the call holds
WasmReturn ==
    /\ caller = "web" /\ js = "call" /\ pc = "returned"
    /\ LET out == newHandle(handles, "out", ~outZip.closed)
           goOut == IF result.kind = "ok" THEN out.ptr ELSE 0
           table == IF result.kind = "ok" THEN out.table ELSE handles
           freed == freeBytes(freeBytes(table, goFile), goKey)
       IN  /\ handles' = IF goOut # 0 THEN freeBytes(freed, goOut) ELSE freed
           /\ js' = IF goOut # 0 THEN "resolved" ELSE "rejected"
    /\ pc' = "idle"
    /\ UNCHANGED <<inputs, busy, disabled, reading, handlesBefore, goFile, goKey, submits,
                   started, streams, licenseFile, licenseText, userKey, contentKey,
                   encryptedFiles, idx, outZip, opened, deciphered, result, outFileExists, exit>>

\* the busy flag after the finally callback of lines 131-134
Settled(b) == FALSE

\* main.js lines 126-134: the promise of decrypt settled; catch, then finally
Settle ==
    /\ caller = "web" /\ js \in {"resolved", "rejected"}
    /\ busy' = Settled(busy)
    /\ disabled' = Settled(disabled)
    /\ js' = "none"
    /\ UNCHANGED <<inputs, reading, handles, handlesBefore, goFile, goKey, submits, started,
                   streams, pc, licenseFile, licenseText, userKey, contentKey, encryptedFiles,
                   idx, outZip, opened, deciphered, result, outFileExists, exit>>

Next ==
    \/ CliRun
    \/ LibCall
    \/ DecodeUserKey
    \/ OpenLicense
    \/ GetContentKey
    \/ ListEncryptedFiles
    \/ BeginOutput
    \/ ProcessEntry
    \/ Finalize
    \/ CliFinish

Spec == Init /\ [][Next]_vars

\* the steps of the page that the event loop takes on its own
WebProgress ==
    \/ ReadFile
    \/ AllocBuffers
    \/ DecodeUserKey
    \/ OpenLicense
    \/ GetContentKey
    \/ ListEncryptedFiles
    \/ BeginOutput
    \/ ProcessEntry
    \/ Finalize
    \/ WasmReturn
    \/ Settle

NextWeb == Submit \/ WebProgress

\* the page: submit events come when the user sends them; a pending callback
\* is run by the event loop
WebSpec == InitPage /\ [][NextWeb]_vars /\ WF_vars(WebProgress)

(***************************************************************************)
(* Properties.                                                             *)
(***************************************************************************)
Returned == pc \in {"returned", "exited"}
Succeeded == Returned /\ result.kind = "ok"

\* the three names the transcoder consumes or supersedes
ConsumedNames == {NameEncryptionXML, NameLicenseLCPL, NameMimetype}

\* the source entries that are carried over, in source order
KeptEntries == SelectSeq(inFile.File, LAMBDA f : f.Name \notin ConsumedNames)

\* the position in the destination of the source entry at index i
DestIndex(i) == 1 + Cardinality({j \in 1..i : inFile.File[j].Name \notin ConsumedNames})

\* C1: once the destination archive is begun, and so whenever Decrypt
\* succeeds, its first entry is named "mimetype", is stored uncompressed and
\* holds exactly "application/epub+zip", and no other entry of the
\* destination is named "mimetype", whatever the source holds under that name.
C1_MimetypeFirst ==
    outZip.created =>
        /\ Len(outZip.File) >= 1
        /\ outZip.File[1].Name = NameMimetype
        /\ outZip.File[1].Method = "Store"
        /\ outZip.File[1].Data = MimetypeContent
        /\ \A i \in 2..Len(outZip.File) : outZip.File[i].Name # NameMimetype

\* a successful run on an archive whose own "mimetype" entry is not the
\* first entry and does not hold the media type
C1_Witness ==
    /\ Succeeded
    /\ \E i \in 2..Len(inFile.File) :
          inFile.File[i].Name = NameMimetype /\ inFile.File[i].Data # MimetypeContent

\* C2: when Decrypt succeeds, the destination names after the leading
\* "mimetype" are the source names without the three consumed names, in
\* source order, and the destination comment is the source comment.
C2_NamesAndComment ==
    Succeeded =>
        /\ Len(outZip.File) = 1 + Len(KeptEntries)
        /\ \A i \in 1..Len(KeptEntries) : outZip.File[i + 1].Name = KeptEntries[i].Name
        /\ outZip.Comment = inFile.Comment
        /\ outZip.closed

\* a successful run that kept two entries of different names, dropped
\* entries, and carried a comment over
C2_Witness ==
    /\ Succeeded
    /\ Len(KeptEntries) = 2
    /\ KeptEntries[1].Name # KeptEntries[2].Name
    /\ Len(inFile.File) >= Len(KeptEntries) + 2
    /\ \E i \in 2..Len(inFile.File) : inFile.File[i].Name = NameMimetype
    /\ inFile.Comment # <<>>

\* the license document that key derivation read decodes, its key check
\* deciphers under the user key, and the result is not the license id
KeyCheckMismatch ==
    LET license == JSONDecode(licenseText)
    IN  /\ license.kind = "ok"
        /\ LET blob == Base64DecodeString(license.val.KeyCheck)
           IN  /\ blob.kind = "ok"
               /\ LET keyCheck == decipherAES256CBC(blob.val, userKey)
                  IN  keyCheck.kind = "ok" /\ keyCheck.val # license.val.ID

AfterKeyDerivation == pc \notin {"idle", "decode", "license", "key"}

\* C3: when the key check deciphered with the user key differs from the
\* license id, key derivation ends in an error right after that one
\* decipher call (the content key blob is never deciphered), Decrypt returns
\* an error, and the destination has received nothing: no writer, no
\* comment, no entry; no source entry was opened either.
C3_KeyMismatchStops ==
    (AfterKeyDerivation /\ licenseText # <<>> /\ KeyCheckMismatch) =>
        /\ Returned
        /\ result.kind = "err"
        /\ Len(deciphered) = 1
        /\ deciphered[1].what = "key_check"
        /\ contentKey = <<>>
        /\ outZip = NoWriter
        /\ opened = {}

\* a run that ended on a key check that deciphers to something else than
\* the license id
C3_Witness ==
    /\ Returned
    /\ licenseText # <<>>
    /\ KeyCheckMismatch
    /\ result.err = <<"error getting content key", "decrypted key check does not match license ID">>

\* the encryption manifest of the source archive, decoded
ManifestDoc ==
    LET encFile == ZipOpen(inFile.File, NameEncryptionXML)
    IN  IF encFile.kind = "ok" THEN XMLDecode(encFile.val) ELSE encFile

RecognisedAlgorithms == {EncryptionAlgorithmAES256CBC, EncryptionAlgorithmFontObfuscation}

UnsupportedRecords ==
    IF ManifestDoc.kind = "ok"
    THEN {i \in 1..Len(ManifestDoc.val) : ManifestDoc.val[i].Algorithm \notin RecognisedAlgorithms}
    ELSE {}

HasUnsupportedRecord == UnsupportedRecords # {}

FirstUnsupported == CHOOSE i \in UnsupportedRecords : \A j \in UnsupportedRecords : i <= j

\* the error of line 259 for the first record with an unknown algorithm
UnsupportedError ==
    <<"error listing encrypted files", "unsupported encryption algorithm for file",
      PathUnescape(ManifestDoc.val[FirstUnsupported].URI).val,
      ManifestDoc.val[FirstUnsupported].Algorithm>>

Packaged ==
    {[data |-> Seal(ContentKey, iv, IF comp THEN DeflateStored(plain) ELSE plain),
      plain |-> plain, comp |-> comp] :
        plain \in {PlainA, PlainC, PlainE}, iv \in {IV1, IV2}, comp \in BOOLEAN}

\* the source entries the loop has gone through
Processed == IF outZip.created THEN 1..(idx - 1) ELSE {}

\* the name is a directory marker: its last byte is "/"
EndsInSlash(name) == name # <<>> /\ name[Len(name)] = 47

IsFile(i) == ~EndsInSlash(inFile.File[i].Name) /\ inFile.File[i].Name \notin ConsumedNames

\* the lookup the transcoder consults
Policy == groupFileEntriesByPath(encryptedFiles)

\* C5: round trip.  For every processed file entry that the manifest lists
\* as AES256CBC and whose content was packaged from a plaintext under the
\* content key the license wraps, with the manifest's compression flag set
\* iff the plaintext was deflated, the destination entry holds exactly the
\* plaintext, and it was deciphered with the content key.
C5_RoundTrip ==
    \A i \in Processed : \A pk \in Packaged :
        (/\ IsFile(i)
         /\ inFile.File[i].Data = pk.data
         /\ contentKey = ContentKey
         /\ inFile.File[i].Name \in DOMAIN Policy
         /\ Policy[inFile.File[i].Name].EncryptionAlgorithm = EncryptionAlgorithmAES256CBC
         /\ Policy[inFile.File[i].Name].IsCompressed = pk.comp) =>
            /\ outZip.File[DestIndex(i)].Name = inFile.File[i].Name
            /\ outZip.File[DestIndex(i)].Data = pk.plain
            /\ \E c \in 1..Len(deciphered) :
                  deciphered[c] = [what |-> "file", key |-> ContentKey, entry |-> i]

\* a successful run that restored a deflated and a non-deflated plaintext,
\* under a user key that is not the content key
C5_Witness ==
    /\ Succeeded
    /\ userKey # contentKey
    /\ \E i, j \in Processed :
          /\ inFile.File[i] = EntryE /\ outZip.File[DestIndex(i)].Data = PlainE
          /\ inFile.File[j] = EntryC /\ outZip.File[DestIndex(j)].Data = PlainC
          /\ ~Policy[NameE].IsCompressed /\ Policy[NameC].IsCompressed

\* the percent-decoded paths of the manifest
ManifestPaths ==
    IF ManifestDoc.kind = "ok"
    THEN {PathUnescape(ManifestDoc.val[k].URI).val : k \in 1..Len(ManifestDoc.val)}
    ELSE {}

\* C6: every processed file entry whose name is no path of the manifest is
\* in the destination under the same name with the same bytes, and no
\* decipher call was made for it.
C6_VerbatimCopy ==
    \A i \in Processed :
        (IsFile(i) /\ inFile.File[i].Name \notin ManifestPaths) =>
            /\ outZip.File[DestIndex(i)].Name = inFile.File[i].Name
            /\ outZip.File[DestIndex(i)].Data = inFile.File[i].Data
            /\ \A c \in 1..Len(deciphered) : deciphered[c].entry # i

\* a successful run that copied an AES-packaged entry the manifest does not
\* list, next to an entry it lists
C6_Witness ==
    /\ Succeeded
    /\ ManifestPaths # {}
    /\ \E i \in Processed :
          /\ inFile.File[i] = EntryE
          /\ NameE \notin ManifestPaths
          /\ outZip.File[DestIndex(i)].Data = EntryE.Data

\* C7: every processed source entry whose name ends in "/" has a destination
\* entry of the same name with no data; its data stream was never opened and
\* no decipher call was made for it, also when the manifest lists it.
C7_Directories ==
    \A i \in Processed :
        (EndsInSlash(inFile.File[i].Name) /\ inFile.File[i].Name \notin ConsumedNames) =>
            /\ outZip.File[DestIndex(i)].Name = inFile.File[i].Name
            /\ outZip.File[DestIndex(i)].Data = <<>>
            /\ i \notin opened
            /\ \A c \in 1..Len(deciphered) : deciphered[c].entry # i

\* a successful run over a directory entry that the manifest lists as AES
C7_Witness ==
    /\ Succeeded
    /\ \E i \in Processed :
          /\ inFile.File[i].Name = NameD
          /\ NameD \in DOMAIN Policy
          /\ Policy[NameD].EncryptionAlgorithm = EncryptionAlgorithmAES256CBC
    /\ opened # {}

\* the blob that the c-th decipher call of the run was given
CallBlob(c) ==
    IF deciphered[c].what = "key_check"
    THEN Base64DecodeString(JSONDecode(licenseText).val.KeyCheck).val
    ELSE IF deciphered[c].what = "content_key"
    THEN Base64DecodeString(JSONDecode(licenseText).val.EncryptedValue).val
    ELSE inFile.File[deciphered[c].entry].Data

\* the padding length byte of a blob of whole blocks exceeds the data length
PaddingTooLong(data, key) ==
    /\ Len(data) >= 2 * BlockSize
    /\ Len(data) % BlockSize = 0
    /\ NewCipherOK(key)
    /\ LET res == CBCDecrypt(key, SubSeq(data, 1, BlockSize), SubSeq(data, BlockSize + 1, Len(data)))
       IN  res[Len(res)] > Len(res)

\* C8 as stated: every call of decipherAES256CBC that a run makes, whatever
\* the length of its blob, yields a plaintext or an error value and never
\* panics, and a padding length larger than the plaintext yields an error.
C8_NeverPanics ==
    \A c \in 1..Len(deciphered) :
        LET r == decipherAES256CBC(CallBlob(c), deciphered[c].key)
        IN  /\ r.kind \in {"ok", "err"}
            /\ PaddingTooLong(CallBlob(c), deciphered[c].key) => r.kind = "err"

\* the user key argument is hex for exactly 32 bytes
IsKey32(hex) == HexDecodeString(hex).kind = "ok" /\ Len(HexDecodeString(hex).val) = 32

\* C9 as stated: under a user key that is not hex for exactly 32 bytes,
\* Decrypt does not succeed and derives no content key.
C9_RejectsOtherKeys ==
    (Returned /\ ~IsKey32(userKeyHex)) => (result.kind # "ok" /\ contentKey = <<>>)

\* the license entry of the source archive
EmbeddedLicense == ZipOpen(inFile.File, NameLicenseLCPL)

\* C10 as stated: under a user key that decodes, key derivation runs on the
\* external license when one is given, and on the embedded
\* META-INF/license.lcpl otherwise, from the command line as from a direct
\* call.
C10_LicenseSource ==
    (/\ Returned
     /\ userKeyHex # <<>>
     /\ HexDecodeString(userKeyHex).kind = "ok"
     /\ (extLicense.given \/ EmbeddedLicense.kind = "ok")) =>
        licenseText = IF extLicense.given THEN extLicense.text ELSE EmbeddedLicense.val

\* the run of cmd/lcp-decrypt is over
Exited == caller = "cli" /\ pc = "exited"

\* lcp.Decrypt was called and did not return nil
CoreFailed == result.kind \in {"err", "panic"}

\* C11 as stated: when a run of cmd/lcp-decrypt is over and lcp.Decrypt
\* failed, the exit status is not zero and the output file is gone; the
\* output file is on disk only after lcp.Decrypt returned nil.
C11_OutputRemoved ==
    Exited =>
        /\ CoreFailed => (exit # 0 /\ ~outFileExists)
        /\ outFileExists => result.kind = "ok"

\* an operation on the source entry at index i fails: creating its
\* destination entry, opening its stream, reading, deciphering, inflating or
\* copying its data, closing its stream
EntryFails(i) ==
    /\ inFile.File[i].Name \notin ConsumedNames
    /\ \/ Fails("create", i)
       \/ /\ ~EndsInSlash(inFile.File[i].Name)
          /\ \/ Fails("open", i)
             \/ Fails("read", i)
             \/ Fails("close", i)
             \/ TranscodeEntry(inFile.File[i], Policy, contentKey).kind # "ok"

FailingEntries == {i \in 1..Len(inFile.File) : EntryFails(i)}
FirstFailing == CHOOSE i \in FailingEntries : \A j \in FailingEntries : i <= j

\* Decrypt returned from inside or after the loop over the source entries
LoopEntered == Returned /\ outZip.created

\* nothing of a source entry after the first failing one has been touched,
\* and the destination was not finalized
StoppedAtFirstFailing ==
    /\ idx = FirstFailing
    /\ opened \subseteq 1..FirstFailing
    /\ Len(outZip.File) <= DestIndex(FirstFailing)
    /\ ~outZip.closed

\* every kept source entry has its destination entry
EveryEntryWritten == idx > Len(inFile.File) /\ Len(outZip.File) = 1 + Len(KeptEntries)

\* C12 as stated: when an operation on a source entry fails, Decrypt returns
\* an error that names the first such entry, has touched no later entry and
\* has not finalized the destination; when only finalizing fails, Decrypt
\* returns an error with every entry written; Decrypt returns nil only with
\* every entry written and the destination finalized.
C12_NoPartialSuccess ==
    /\ (LoopEntered /\ FailingEntries # {}) =>
          /\ result.kind = "err"
          /\ Len(result.err) >= 2
          /\ result.err[2] = inFile.File[FirstFailing].Name
          /\ StoppedAtFirstFailing
    /\ (LoopEntered /\ FailingEntries = {} /\ fault.op = "finalize") =>
          (result.kind = "err" /\ EveryEntryWritten /\ ~outZip.closed)
    /\ Succeeded => (EveryEntryWritten /\ outZip.closed /\ fault.op # "finalize")

\* what holds of C12 when the failure of an entry that is a run-time panic
\* is set apart: Decrypt then does not return at all
PartialSuccessExceptPanics ==
    /\ (LoopEntered /\ FailingEntries # {}) =>
          /\ result.kind \in {"err", "panic"}
          /\ result.kind = "err" =>
                (Len(result.err) >= 2 /\ result.err[2] = inFile.File[FirstFailing].Name)
          /\ StoppedAtFirstFailing
    /\ (LoopEntered /\ FailingEntries = {} /\ fault.op = "finalize") =>
          (result.kind = "err" /\ EveryEntryWritten /\ ~outZip.closed)
    /\ Succeeded => (EveryEntryWritten /\ outZip.closed /\ fault.op # "finalize")

\* C13 as stated: every call of decipherAES256CBC that a run makes on an
\* empty blob under a 32-byte key, for a license field or for an archive
\* entry, returns the empty plaintext and no error.
C13_EmptyBlob ==
    \A c \in 1..Len(deciphered) :
        (CallBlob(c) = <<>> /\ Len(deciphered[c].key) = 32) =>
            decipherAES256CBC(CallBlob(c), deciphered[c].key) = Ok(<<>>)

\* the open data streams of entries of the loop
EntryStreams == streams \ {0}

\* C15 as stated: when Decrypt has returned, no stream it opened from the
\* source archive is open, neither the embedded license entry nor an entry's
\* data stream; and at no point is more than one entry data stream open.
C15_StreamsClosed ==
    /\ Cardinality(EntryStreams) <= 1
    /\ Returned => streams = {}

\* the decrypt call of main.js that ran has settled
CallSettled == caller = "web" /\ js \in {"resolved", "rejected"}

\* C14 as stated: when a decrypt call of main.js settles, by success, by an
\* exception of the wasm decrypt or by a failed allocation, the handles table
\* of the wasm instance is the table from before the call.
C14_HandlesRestored == CallSettled => handles = handlesBefore

\* the decrypt calls of main.js that were started and have not settled
InFlight == reading + (IF js = "none" THEN 0 ELSE 1)

\* a submit event handled while the busy flag is set
SubmitWhileBusy == busy /\ submits' = submits + 1

\* C16: on the page, under every interleaving of submit events and decrypt
\* completions, at most one decrypt call is in flight, and the busy flag and
\* the disabled button say exactly whether one is; a submit handled while
\* busy starts no decrypt call and adds no wasm buffer; and whenever busy is
\* set, the call in flight settles, by resolving or by rejecting, and busy
\* is reset and the button enabled again.
C16_BusyFlag ==
    /\ [](InFlight <= 1 /\ (busy <=> InFlight = 1) /\ (disabled <=> busy))
    /\ [][SubmitWhileBusy => (started' = started /\ reading' = reading /\ handles' = handles)]_vars
    /\ (busy ~> (~busy /\ ~disabled))

\* a page where a submit was ignored while a call was in flight, that call
\* rejected, and a later submit started a second call, settled as well
C16_Witness ==
    /\ caller = "web"
    /\ started = 2
    /\ submits > started
    /\ userKeyHex # <<>>
    /\ result.kind = "err"
    /\ ~busy /\ ~disabled /\ js = "none"

====
